---- MODULE Spec2Model ----
(***************************************************************************)
(* CloudDrive: the s3-sign storage-access broker (Supabase edge function), *)
(* the metadata store it reads (tables files and shared_links) and the     *)
(* dashboard workflows that call it.                                       *)
(*                                                                         *)
(* The repository holds two copies of the broker's handler that differ:    *)
(*   "index"   src/supabase/functions/s3-sign/index.ts                     *)
(*   "part004" src/unnamed/part_004, lines 1-148                           *)
(* The variable `deployed` says which copy serves the requests; it is      *)
(* chosen at Init and never changes.  The S3 secrets are set (README,      *)
(* step 4) and the shared_links foreign key cascades (part_003).           *)
(* A third, earlier copy of the handler (src/unnamed/part_004, lines       *)
(* 150-244, "part004old") is deployed only under SpecHistory.              *)
(*                                                                         *)
(* Strings that the code inspects character by character (user ids,        *)
(* storage keys, file names) are sequences of one-character strings.       *)
(* Time is counted in days.                                                *)
(***************************************************************************)
EXTENDS Integers, Sequences, FiniteSets, TLC

VARIABLES
    deployed,        \* which copy of the handler is deployed
    now,             \* the clock (new Date(), Date.now())
    files,           \* rows of public.files
    links,           \* rows of public.shared_links
    bucket,          \* keys of the objects in the S3 bucket
    nextId,          \* files created so far + 1 (uuid_generate_v4 is fresh)
    nextToken,       \* share links created so far + 1 (crypto.randomUUID is fresh)
    lastReq,         \* the request the broker is answering, if any
    lastResp,        \* its response, with the calls the broker made for it
    sessions         \* what each open dashboard session holds in its component state

vars ==
    <<deployed, now, files, links, bucket, nextId, nextToken, lastReq, lastResp,
      sessions>>

----------------------------------------------------------------------------
(* Bounds of the model *)

MaxClock == 2
MaxFiles == 1
MaxLinks == 1
MaxRows == 3
MaxTable == 2
MaxShares == 2

----------------------------------------------------------------------------
(* Values *)

Versions == {"index", "part004"}

\* JavaScript's undefined and null: not a sequence of characters
Undefined == <<"undefined-value">>
Null == <<"null-value">>

Truthy(v) == v # Undefined /\ v # Null /\ v # <<>>

UserIds == { <<"u", "1">>, <<"u", "1", "0">> }

\* Text that is only compared as a whole (content types, messages, tokens) is a
\* sequence of longer pieces.

\* Authorization headers: none, the anon key (PublicDownload.tsx:44), a session
Jwt(u) == <<"jwt">> \o u
AnonKey == <<"anon">>
AuthHeaders == {Undefined, AnonKey} \cup {Jwt(u) : u \in UserIds}

\* "U+00E9" stands for the one non-ASCII character e-acute
FileNames == { <<"a", "U+00E9", "\"">> }
FileTypes == { <<"text/html">> }
FOLDER_MIME_TYPE == <<"application/x-directory">>
FolderNames == { <<"d">> }

\* browser sessions; a session that runs no workflow is at rest
SessionIds == {1, 2}
AtRest == [at |-> "rest"]

\* const isFolder = file.mime_type === FOLDER_MIME_TYPE
isFolder(f) == f.mime_type = FOLDER_MIME_TYPE
ExpirationDays == {1, 7, 30}
NoParent == 0
expiresIn == 3600

----------------------------------------------------------------------------
(* String functions of the JavaScript runtime, as the handler uses them *)

\* String.prototype.startsWith
startsWith(s, prefix) ==
    /\ Len(prefix) <= Len(s)
    /\ SubSeq(s, 1, Len(prefix)) = prefix

DigitChars == <<"0", "1", "2", "3", "4", "5", "6", "7", "8", "9">>

\* Number -> decimal string, as a template literal prints Date.now()
RECURSIVE Digits(_)
Digits(n) ==
    IF n < 10 THEN <<DigitChars[n + 1]>>
    ELSE Digits(n \div 10) \o <<DigitChars[(n % 10) + 1]>>

\* ${v} in a template literal: undefined prints as the word "undefined"
Interpolate(v) ==
    IF v = Undefined THEN <<"u", "n", "d", "e", "f", "i", "n", "e", "d">>
    ELSE v

\* encodeURIComponent leaves A-Z a-z 0-9 - _ . ! ~ * ' ( ) alone
Unreserved ==
    {"a", "b", "x", "u", "U", "t", "z", "n", "d", "e", "f", "i"}
    \cup {DigitChars[i] : i \in 1..10}
    \cup {"-", "_", ".", "!", "~", "*", "'", "(", ")"}

\* ... and writes every other character as the %XX of its UTF-8 bytes
PercentEncoded(c) ==
    CASE c = "/" -> <<"%", "2", "F">>
      [] c = "\"" -> <<"%", "2", "2">>
      [] c = " " -> <<"%", "2", "0">>
      [] c = ";" -> <<"%", "3", "B">>
      [] c = "U+00E9" -> <<"%", "C", "3", "%", "A", "9">>

RECURSIVE encodeURIComponent(_)
encodeURIComponent(s) ==
    IF s = <<>> THEN <<>>
    ELSE (IF Head(s) \in Unreserved THEN <<Head(s)>> ELSE PercentEncoded(Head(s)))
         \o encodeURIComponent(Tail(s))

\* `attachment; filename="${encodedName}"; filename*=UTF-8''${encodedName}`
ContentDisposition(encodedName) ==
    <<"attachment; filename=\"">> \o encodedName
    \o <<"\"; filename*=UTF-8''">> \o encodedName

\* `${user.id}/${Date.now()}-${fileName}`
fileKey(userId, fileName) ==
    userId \o <<"/">> \o Digits(now) \o <<"-">> \o Interpolate(fileName)

----------------------------------------------------------------------------
(* The calls the handler makes *)

\* supabaseClient.auth.getUser() for an Authorization header
getUser(authHeader) ==
    IF /\ authHeader # Undefined
       /\ Len(authHeader) > 1
       /\ Head(authHeader) = "jwt"
       /\ Tail(authHeader) \in UserIds
    THEN [user |-> Tail(authHeader), error |-> FALSE]
    ELSE [user |-> Null, error |-> TRUE]

\* getSignedUrl(s3Client, command, { expiresIn: 3600 })
getSignedUrl(command) == [command |-> command, expiresIn |-> expiresIn]

NoCalls == [identity |-> 0, metadata |-> 0, sign |-> 0, delete |-> 0]

\* new Response(JSON.stringify(body), { status }) and what handling it did
Response(status, body, calls, newBucket) ==
    [status |-> status, body |-> body, calls |-> calls, bucket |-> newBucket]

\* catch (error): { error: error.message } with status 400
Caught(message, calls) == Response(400, [error |-> message], calls, bucket)

\* the check with index.ts testing an error it never reads from getUser
authFailsOnErrorOnly(v, auth) == v # "index" /\ auth.error

\* if (!user) in index.ts; if (userError || !user) in part_004
authFails(v, auth) ==
    IF v = "index" THEN auth.user = Null
    ELSE auth.error \/ auth.user = Null

\* index.ts throws Error("Unauthorized"), which its catch answers with 400;
\* part_004 returns the 401 response itself
unauthenticated(v, calls) ==
    IF v = "index" THEN Caught(<<"Unauthorized">>, calls)
    ELSE Response(401, [error |-> <<"Unauthorized">>], calls, bucket)

\* key.startsWith(user.id): the ownership check of download and delete
ownsKey(key, userId) == startsWith(key, userId)

\* the comparison turned round
linkExpiredReversed(link) == now < link.expires_at

\* new Date(linkData.expires_at) < new Date()
linkExpired(link) == link.expires_at < now

\* the GetObjectCommand of public_download
publicCommand(v, fileData) ==
    IF v = "index"
    THEN [op |-> "GetObject", Key |-> fileData.s3_key,
          ResponseContentDisposition |-> Undefined,
          ResponseContentType |-> Undefined]
    ELSE [op |-> "GetObject", Key |-> fileData.s3_key,
          ResponseContentDisposition |->
              ContentDisposition(encodeURIComponent(fileData.name)),
          ResponseContentType |-> <<"application/octet-stream">>]

\* the GetObjectCommand of download: part_004 forces a download if (fileName)
downloadCommand(v, key, fileName) ==
    IF v = "part004" /\ Truthy(fileName)
    THEN [op |-> "GetObject", Key |-> key,
          ResponseContentDisposition |->
              ContentDisposition(encodeURIComponent(fileName)),
          ResponseContentType |-> <<"application/octet-stream">>]
    ELSE [op |-> "GetObject", Key |-> key,
          ResponseContentDisposition |-> Undefined,
          ResponseContentType |-> Undefined]

\* action === 'public_download'
publicDownload(v, req, calls) ==
    LET c1 == [calls EXCEPT !.metadata = 1]
        c2 == [calls EXCEPT !.metadata = 2]
        linkRows == {l \in links : l.token = req.token}
    IN  IF ~Truthy(req.token) THEN Caught(<<"Token required">>, calls)
        ELSE IF req.fault = "link" \/ linkRows = {}
        THEN Caught(<<"Invalid or expired link">>, c1)
        ELSE LET linkData == CHOOSE l \in linkRows : TRUE
                 fileRows == {f \in files : f.id = linkData.file_id}
             IN  IF linkExpired(linkData) THEN Caught(<<"Link expired">>, c1)
                 ELSE IF req.fault = "file" \/ fileRows = {}
                 THEN Caught(<<"File not found">>, c2)
                 ELSE LET f == CHOOSE f \in fileRows : TRUE
                          fileData == [s3_key |-> f.s3_key, name |-> f.name,
                                       size |-> f.size, mime_type |-> f.mime_type]
                          url == getSignedUrl(publicCommand(v, fileData))
                      IN  Response(200, [url |-> url, file |-> fileData],
                                   [c2 EXCEPT !.sign = 1], bucket)

\* an upload through the broker: the handler writes the object itself
uploadStores(userId, req, calls) ==
    LET key == fileKey(userId, req.fileName)
        command == [op |-> "PutObject", Key |-> key, ContentType |-> req.fileType]
    IN  Response(200, [url |-> getSignedUrl(command), key |-> key],
                 [calls EXCEPT !.sign = 1], bucket \cup {key})

\* action === 'upload'
upload(userId, req, calls) ==
    LET key == fileKey(userId, req.fileName)
        command == [op |-> "PutObject", Key |-> key, ContentType |-> req.fileType]
    IN  Response(200, [url |-> getSignedUrl(command), key |-> key],
                 [calls EXCEPT !.sign = 1], bucket)

\* action === 'download'
download(v, userId, req, calls) ==
    IF req.key = Undefined
    THEN Caught(<<"TypeError: Cannot read properties of undefined">>, calls)
    ELSE IF ~ownsKey(req.key, userId)
    THEN Caught(<<"Unauthorized access to file">>, calls)
    ELSE Response(200,
                  [url |-> getSignedUrl(downloadCommand(v, req.key, req.fileName))],
                  [calls EXCEPT !.sign = 1], bucket)

\* a delete that treats a missing object as an error
deleteFailsIfMissing(userId, req, calls) ==
    IF req.key = Undefined
    THEN Caught(<<"TypeError: Cannot read properties of undefined">>, calls)
    ELSE IF ~startsWith(req.key, userId)
    THEN Caught(<<"Unauthorized access to file">>, calls)
    ELSE IF req.fault = "s3" \/ req.key \notin bucket
    THEN Caught(<<"S3 request failed">>, [calls EXCEPT !.delete = 1])
    ELSE Response(200, [success |-> TRUE], [calls EXCEPT !.delete = 1],
                  bucket \ {req.key})

\* action === 'delete': s3Client.send(DeleteObjectCommand) may throw
delete(userId, req, calls) ==
    IF req.key = Undefined
    THEN Caught(<<"TypeError: Cannot read properties of undefined">>, calls)
    ELSE IF ~ownsKey(req.key, userId)
    THEN Caught(<<"Unauthorized access to file">>, calls)
    ELSE IF req.fault = "s3"
    THEN Caught(<<"S3 request failed">>, [calls EXCEPT !.delete = 1])
    ELSE Response(200, [success |-> TRUE], [calls EXCEPT !.delete = 1],
                  bucket \ {req.key})

\* the earlier copy of the handler: the credential is checked before the
\* action is read, and there is no public_download
handlerOld(v, req) ==
    LET auth == getUser(req.authHeader)
        calls == [NoCalls EXCEPT !.identity = 1]
    IN  IF ~Truthy(req.authHeader)
        THEN Caught(<<"Missing Authorization header">>, NoCalls)
        ELSE IF auth.error \/ auth.user = Null
        THEN Response(401, [error |-> <<"Unauthorized">>], calls, bucket)
        ELSE IF req.action = "upload" THEN upload(auth.user, req, calls)
        ELSE IF req.action = "download" THEN download(v, auth.user, req, calls)
        ELSE IF req.action = "delete" THEN delete(auth.user, req, calls)
        ELSE Caught(<<"Unknown action: ", req.action>>, calls)

\* the Deno.serve handler for a POST request
handler(v, req) ==
    LET auth == getUser(req.authHeader)
        calls == [NoCalls EXCEPT !.identity = 1]
    IN  IF v = "part004old" THEN handlerOld(v, req)
        ELSE IF req.action = "public_download" THEN publicDownload(v, req, calls)
        ELSE IF authFails(v, auth) THEN unauthenticated(v, calls)
        ELSE IF req.action = "upload" THEN upload(auth.user, req, calls)
        ELSE IF req.action = "download" THEN download(v, auth.user, req, calls)
        ELSE IF req.action = "delete" THEN delete(auth.user, req, calls)
        ELSE Caught(<<"Unknown action: ", req.action>>, calls)

----------------------------------------------------------------------------
(* The metadata store: the statements the clients issue, under RLS *)

\* select from files: policy "Users can view own files"
filesSelect(uid) == {f \in files : f.user_id = uid}

\* insert into files: policy "Users can insert own files", s3_key unique,
\* parent_id references files(id)
filesInsert(uid, row) ==
    IF /\ uid = row.user_id
       /\ \A f \in files : f.s3_key # row.s3_key
       /\ (row.parent_id = NoParent \/ \E f \in files : f.id = row.parent_id)
    THEN files \cup {row}
    ELSE files

\* a delete that no foreign key holds back
filesDeleteUnchecked(uid, ids) == {f \in files : ~(f.id \in ids /\ f.user_id = uid)}

\* delete from files where id in ids: policy "Users can delete own files"; the
\* statement fails as a whole if a row that stays has a parent_id that goes
filesDelete(uid, ids) ==
    LET gone == {f \in files : f.id \in ids /\ f.user_id = uid}
        kept == files \ gone
    IN  IF \E k \in kept, g \in gone : k.parent_id = g.id THEN files ELSE kept

\* update files set name = newName where id = id: policy "Users can update own
\* files"
filesRename(uid, id, newName) ==
    {IF f.id = id /\ f.user_id = uid THEN [f EXCEPT !.name = newName] ELSE f :
        f \in files}

\* update files set parent_id = target where id = id, parent_id references files(id)
filesMove(uid, id, target) ==
    IF target = NoParent \/ \E f \in files : f.id = target
    THEN {IF f.id = id /\ f.user_id = uid THEN [f EXCEPT !.parent_id = target]
          ELSE f : f \in files}
    ELSE files

\* an update policy that looks at the row before the update only
filesReassignUnchecked(uid, id, owner) ==
    {IF f.id = id /\ f.user_id = uid THEN [f EXCEPT !.user_id = owner] ELSE f :
        f \in files}

\* update files set user_id = owner where id = id: the policy has USING only, so
\* its expression is also the check of the row after the update, and a row that
\* fails it fails the statement
filesReassign(uid, id, owner) ==
    IF \E f \in files : f.id = id /\ f.user_id = uid /\ owner # uid
    THEN files
    ELSE {IF f.id = id /\ f.user_id = uid THEN [f EXCEPT !.user_id = owner] ELSE f :
             f \in files}

\* select from shared_links: policies "Users can manage own shared links" and
\* "Public can view shared links with valid token" (using (true))
linksSelect(uid) == {l \in links : l.created_by = uid \/ TRUE}

\* a foreign key that does not cascade to the links of a deleted file
linksKept(newFiles) == links

\* shared_links_file_id_fkey ... ON DELETE CASCADE
linksCascade(newFiles) == {l \in links : \E f \in newFiles : f.id = l.file_id}

\* insert into shared_links: policy "Users can manage own shared links",
\* token unique, file_id references files
linksInsert(uid, row) ==
    IF /\ uid = row.created_by
       /\ \A l \in links : l.token # row.token
       /\ \E f \in files : f.id = row.file_id
    THEN links \cup {row}
    ELSE links

\* crypto.randomUUID().split('-').slice(0, 3).join(''): a token not used before
Token(n) == <<"t">> \o Digits(n)

----------------------------------------------------------------------------
(* Requests *)

Request(authHeader, action, fileName, fileType, key, token, fault) ==
    [method |-> "POST", authHeader |-> authHeader, action |-> action,
     fileName |-> fileName, fileType |-> fileType, key |-> key,
     token |-> token, fault |-> fault]

\* keys a client may send: the real ones and some made up
KeyInputs ==
    {Undefined, <<"u", "1">>, <<"u", "1", "/", "x">>, <<"U", "1", "/", "x">>,
     <<"u", "1", "0", "/", "x">>}
    \cup {f.s3_key : f \in files} \cup bucket

\* tokens a client may send: none, empty, made up, and every token ever issued
TokenInputs ==
    {Undefined, <<>>, <<"z">>} \cup {Token(n) : n \in 1..(nextToken - 1)}

\* display names a client may send with a download
NameInputs == FileNames \cup {Undefined, <<>>}

IsError(resp) == "error" \in DOMAIN resp.body

NoRequest == [method |-> "none"]
NoResponse ==
    [status |-> 0, body |-> [none |-> TRUE], calls |-> NoCalls,
     storeBefore |-> {}, storeAfter |-> {}]

\* no response is on its way to a client
Idle == lastReq = NoRequest

\* the broker answers req with resp: what the model remembers of the exchange
Answered(req, resp) ==
    /\ Idle
    /\ lastReq' = req
    /\ lastResp' = [status |-> resp.status, body |-> resp.body,
                    calls |-> resp.calls,
                    storeBefore |-> bucket, storeAfter |-> resp.bucket]

----------------------------------------------------------------------------
(* Actions *)

Init ==
    /\ deployed \in Versions
    /\ now = 0
    /\ files = {}
    /\ links = {}
    /\ bucket = {}
    /\ nextId = 1
    /\ nextToken = 1
    /\ lastReq = NoRequest
    /\ lastResp = NoResponse
    /\ sessions = [s \in SessionIds |-> AtRest]

\* time passes
Tick ==
    /\ Idle
    /\ now < MaxClock
    /\ now' = now + 1
    /\ UNCHANGED <<sessions, deployed, files, links, bucket, nextId, nextToken,
                   lastReq, lastResp>>

\* req.method === 'OPTIONS': new Response('ok', { headers: corsHeaders })
Preflight ==
    /\ Idle
    /\ lastReq' = [method |-> "OPTIONS"]
    /\ lastResp' = [status |-> 200, body |-> [text |-> <<"ok">>], calls |-> NoCalls,
                    storeBefore |-> bucket, storeAfter |-> bucket]
    /\ UNCHANGED <<sessions, deployed, now, files, links, bucket, nextId, nextToken>>

\* any client posts any request to the broker
Serve(authHeader, action, fileName, fileType, key, token, fault) ==
    LET req == Request(authHeader, action, fileName, fileType, key, token, fault)
        resp == handler(deployed, req)
    IN  /\ Answered(req, resp)
        /\ bucket' = resp.bucket
        /\ UNCHANGED <<sessions, deployed, now, files, links, nextId, nextToken>>

\* the client has read the response
Returned ==
    /\ ~Idle
    /\ lastReq' = NoRequest
    /\ lastResp' = NoResponse
    /\ UNCHANGED <<sessions, deployed, now, files, links, bucket, nextId, nextToken>>

\* Dashboard.uploadFile: upload intent, PUT to the signed URL, insert the row
uploadInto(u, name, type, putOk, folder) ==
    /\ LET req == Request(Jwt(u), "upload", name, type, Undefined, Undefined, "none")
           resp == handler(deployed, req)
           stored == resp.status = 200 /\ putOk
           row == [id |-> nextId, user_id |-> u, name |-> name, size |-> 5,
                   mime_type |-> type, s3_key |-> resp.body.key,
                   parent_id |-> folder]
       IN  /\ Answered(req, resp)
           /\ bucket' = IF stored THEN resp.bucket \cup {resp.body.key}
                        ELSE resp.bucket
           /\ files' = IF stored THEN filesInsert(u, row) ELSE files
           /\ nextId' = IF files' # files THEN nextId + 1 ELSE nextId
    /\ UNCHANGED <<sessions, deployed, now, links, nextToken>>

\* an upload at the top level
uploadFile(u, name, type, putOk) ==
    /\ nextId <= MaxFiles
    /\ uploadInto(u, name, type, putOk, NoParent)

\* ShareModal.createLink for one of the user's files
createLink(u, f, days) ==
    /\ Idle
    /\ nextToken <= MaxLinks
    /\ f \in files
    /\ f.user_id = u
    /\ ~isFolder(f)
    /\ links' = linksInsert(u, [file_id |-> f.id, created_by |-> u,
                                token |-> Token(nextToken),
                                expires_at |-> now + days])
    /\ nextToken' = nextToken + 1
    /\ UNCHANGED <<sessions, deployed, now, files, bucket, nextId, lastReq, lastResp>>

\* Dashboard.handleDelete of one file: the broker's delete, then the row
handleDelete(u, f, fault) ==
    /\ f \in files
    /\ f.user_id = u
    /\ LET req == Request(Jwt(u), "delete", Undefined, Undefined, f.s3_key,
                          Undefined, fault)
           resp == handler(deployed, req)
       IN  /\ Answered(req, resp)
           /\ bucket' = resp.bucket
           /\ files' = filesDelete(u, {f.id})
           /\ links' = linksCascade(files')
    /\ UNCHANGED <<sessions, deployed, now, nextId, nextToken>>

Next ==
    \/ Tick
    \/ Preflight
    \/ \E h \in AuthHeaders, n \in FileNames \cup {Undefined},
          t \in FileTypes \cup {Undefined} :
          Serve(h, "upload", n, t, Undefined, Undefined, "none")
    \/ \E h \in AuthHeaders, n \in NameInputs, k \in KeyInputs :
          Serve(h, "download", n, Undefined, k, Undefined, "none")
    \/ \E h \in AuthHeaders, k \in KeyInputs, fault \in {"none", "s3"} :
          Serve(h, "delete", Undefined, Undefined, k, Undefined, fault)
    \/ \E h \in AuthHeaders, tk \in TokenInputs, fault \in {"none", "link", "file"} :
          Serve(h, "public_download", Undefined, Undefined, Undefined, tk, fault)
    \/ \E h \in AuthHeaders :
          Serve(h, "rename", Undefined, Undefined, Undefined, Undefined, "none")
    \/ Returned
    \/ \E u \in UserIds, name \in FileNames, type \in FileTypes, putOk \in BOOLEAN :
          uploadFile(u, name, type, putOk)
    \/ \E u \in UserIds, f \in files, days \in ExpirationDays : createLink(u, f, days)
    \/ \E u \in UserIds, f \in files, fault \in {"none", "s3"} : handleDelete(u, f, fault)

Spec == Init /\ [][Next]_vars

\* the same system with any of the three copies of the handler deployed
InitHistory ==
    /\ deployed \in Versions \cup {"part004old"}
    /\ now = 0
    /\ files = {}
    /\ links = {}
    /\ bucket = {}
    /\ nextId = 1
    /\ nextToken = 1
    /\ lastReq = NoRequest
    /\ lastResp = NoResponse
    /\ sessions = [s \in SessionIds |-> AtRest]

SpecHistory == InitHistory /\ [][Next]_vars

----------------------------------------------------------------------------
(* The dashboard's folder workflows *)

\* `folders/${crypto.randomUUID()}`: a key not used before
folderKey(n) == <<"f", "o", "l", "d", "e", "r", "s", "/">> \o Digits(n)

\* currentFolder: none, or a folder of the user's that the dashboard has entered
CurrentFolders(u) == {NoParent} \cup {f.id : f \in {g \in filesSelect(u) : isFolder(g)}}

\* the rows of a query result, in the order of their ids
RECURSIVE InOrder(_)
InOrder(rows) ==
    IF rows = {} THEN <<>>
    ELSE LET first == CHOOSE f \in rows : \A g \in rows : f.id <= g.id
         IN  <<first>> \o InOrder(rows \ {first})

\* a listing of the folders' own rows only, one level deep
getDirectContents(uid, currentFolderIds) ==
    InOrder({f \in filesSelect(uid) : f.parent_id \in currentFolderIds})

\* Dashboard.getRecursiveContents: the rows below the folders, level by level
RECURSIVE getRecursiveContents(_, _)
getRecursiveContents(uid, currentFolderIds) ==
    IF currentFolderIds = {} THEN <<>>
    ELSE LET data == {f \in filesSelect(uid) : f.parent_id \in currentFolderIds}
             plain == {f \in data : ~isFolder(f)}
             folders == {f \in data : isFolder(f)}
         IN  InOrder(plain) \o InOrder(folders)
             \o getRecursiveContents(uid, {f.id : f \in folders})

\* idsToDelete / keysToDelete of handleDelete: the selection, then what is below
\* the selected folders
toDelete(u, sel) ==
    LET folderIds == {f.id : f \in {g \in sel : isFolder(g)}}
    IN  InOrder(sel) \o getRecursiveContents(u, folderIds)

\* Dashboard.handleCreateFolder in the current folder
handleCreateFolder(u, name, folder) ==
    /\ Idle
    /\ nextId <= MaxRows
    /\ folder \in CurrentFolders(u)
    /\ files' = filesInsert(u, [id |-> nextId, user_id |-> u, name |-> name,
                                size |-> 0, mime_type |-> FOLDER_MIME_TYPE,
                                s3_key |-> folderKey(nextId), parent_id |-> folder])
    /\ nextId' = nextId + 1
    /\ UNCHANGED <<sessions, deployed, now, links, bucket, nextToken, lastReq, lastResp>>

\* Dashboard.uploadFile in the current folder
uploadInFolder(u, name, type, folder) ==
    /\ nextId <= MaxRows
    /\ folder \in CurrentFolders(u)
    /\ uploadInto(u, name, type, TRUE, folder)

\* Dashboard.handleRename of a listed row
handleRename(u, f, newName) ==
    /\ Idle
    /\ f \in filesSelect(u)
    /\ f.name # newName
    /\ files' = filesRename(u, f.id, newName)
    /\ UNCHANGED <<sessions, deployed, now, links, bucket, nextId, nextToken, lastReq, lastResp>>

\* a list in which every row can be dragged
draggableAlways(f) == TRUE

\* draggable={!isFolder}; onDragStart={(e) => !isFolder && onFileDragStart(...)}
draggable(f) == ~isFolder(f)

\* Dashboard.moveFile: a listed row that is no folder, dropped on a listed folder
moveFile(u, f, target) ==
    /\ Idle
    /\ f \in filesSelect(u)
    /\ draggable(f)
    /\ target \in CurrentFolders(u) \ {NoParent, f.parent_id}
    /\ files' = filesMove(u, f.id, target)
    /\ UNCHANGED <<sessions, deployed, now, links, bucket, nextId, nextToken, lastReq, lastResp>>

\* Dashboard.handleDelete of the selected rows.  failAt is the position of the
\* key whose delete fails (0: none): kind "s3" is the broker answering with an
\* error status, kind "network" is fetch itself rejecting.
handleDeleteSelection(u, sel, failAt, kind) ==
    /\ Idle
    /\ sel # {}
    /\ sel \subseteq filesSelect(u)
    /\ LET rows == toDelete(u, sel)
           thrown == failAt > 0 /\ kind = "network"
           tried == IF thrown THEN 1..failAt ELSE 1..Len(rows)
           answer(i) ==
               handler(deployed,
                       Request(Jwt(u), "delete", Undefined, Undefined, rows[i].s3_key,
                               Undefined,
                               IF i = failAt /\ kind = "s3" THEN "s3" ELSE "none"))
           removed == {rows[i].s3_key :
                          i \in {j \in tried : /\ ~(thrown /\ j = failAt)
                                               /\ answer(j).status = 200}}
           ids == {rows[i].id : i \in 1..Len(rows)}
       IN  /\ failAt \in 0..Len(rows)
           /\ failAt = 0 => kind = "s3"
           /\ bucket' = bucket \ removed
           /\ files' = IF thrown THEN files ELSE filesDelete(u, ids)
           /\ links' = linksCascade(files')
           /\ lastReq' = [method |-> "handleDelete", user |-> u,
                          selected |-> {f.id : f \in sel},
                          failAt |-> failAt, kind |-> kind]
           /\ lastResp' = [status |-> IF thrown \/ files' = files THEN 500 ELSE 200,
                           keys |-> {rows[i].s3_key : i \in 1..Len(rows)},
                           attempted |-> {rows[i].s3_key : i \in tried},
                           rowsBefore |-> files, linksBefore |-> links,
                           storeBefore |-> bucket, storeAfter |-> bucket']
    /\ UNCHANGED <<sessions, deployed, now, nextId, nextToken>>

\* the folder workflows: the clock stands still, so files differ by their names
NextDrive ==
    \/ Returned
    \/ \E u \in UserIds, name \in FolderNames :
          \E folder \in CurrentFolders(u) : handleCreateFolder(u, name, folder)
    \/ \E u \in UserIds, name \in FileNames \cup FolderNames, type \in FileTypes :
          \E folder \in CurrentFolders(u) : uploadInFolder(u, name, type, folder)
    \/ \E u \in UserIds, f \in files :
          \E target \in CurrentFolders(u) : moveFile(u, f, target)
    \/ \E u \in UserIds, f \in files, days \in ExpirationDays : createLink(u, f, days)
    \/ \E u \in UserIds, sel \in SUBSET files, failAt \in 0..MaxRows,
          kind \in {"s3", "network"} : handleDeleteSelection(u, sel, failAt, kind)

SpecDrive == Init /\ [][NextDrive]_vars

----------------------------------------------------------------------------
(* The tables as any signed-in client can use them: the dashboard's workflows *)
(* and statements sent to the REST interface directly                         *)

\* a key and a token of the client's own making
ClientKey(n) == <<"k">> \o Digits(n)
ClientToken == <<"z">>

\* ids a client can name in a statement on shared_links: those it can read
KnownFileIds(u) == {f.id : f \in filesSelect(u)} \cup {l.file_id : l \in linksSelect(u)}

\* what the model remembers of a statement on the table files
Stated(method, u, ids, result) ==
    /\ Idle
    /\ lastReq' = [method |-> method, user |-> u, ids |-> ids]
    /\ lastResp' = [status |-> 200, rows |-> result, rowsBefore |-> files,
                    storeBefore |-> bucket, storeAfter |-> bucket]

\* select * from files
sqlSelect(u) ==
    /\ Stated("select", u, {}, filesSelect(u))
    /\ UNCHANGED <<sessions, deployed, now, files, links, bucket, nextId, nextToken>>

\* insert into files, of a plain file's row with any owner and any parent
sqlInsert(u, owner, name, type, parent) ==
    /\ nextId <= MaxTable
    /\ parent \in {NoParent} \cup {f.id : f \in files}
    /\ Stated("insert", u, {nextId}, {})
    /\ files' = filesInsert(u, [id |-> nextId, user_id |-> owner, name |-> name,
                                size |-> 5, mime_type |-> type,
                                s3_key |-> ClientKey(nextId), parent_id |-> parent])
    /\ nextId' = IF files' # files THEN nextId + 1 ELSE nextId
    /\ UNCHANGED <<sessions, deployed, now, links, bucket, nextToken>>

\* update files set name / parent_id / user_id where id = ..., of any row
sqlUpdate(u, id, column, value) ==
    /\ Stated("update", u, {id}, {})
    /\ files' = CASE column = "name" -> filesRename(u, id, value)
                  [] column = "parent_id" -> filesMove(u, id, value)
                  [] column = "user_id" -> filesReassign(u, id, value)
    /\ files' # files
    /\ UNCHANGED <<sessions, deployed, now, links, bucket, nextId, nextToken>>

\* an update that changes nothing: the row is not the client's, or is refused
sqlUpdateRefused(u, id, column, value) ==
    /\ Stated("update", u, {id}, {})
    /\ files = CASE column = "name" -> filesRename(u, id, value)
                 [] column = "parent_id" -> filesMove(u, id, value)
                 [] column = "user_id" -> filesReassign(u, id, value)
    /\ UNCHANGED <<sessions, deployed, now, files, links, bucket, nextId, nextToken>>

\* delete from files where id in ids, of any rows
sqlDelete(u, ids) ==
    /\ ids # {}
    /\ Stated("delete", u, ids, {})
    /\ files' = filesDelete(u, ids)
    /\ links' = linksCascade(files')
    /\ UNCHANGED <<sessions, deployed, now, bucket, nextId, nextToken>>

\* insert into shared_links, for a file id the client can read somewhere
sqlInsertLink(u, fileId, creator, days) ==
    /\ Idle
    /\ fileId \in KnownFileIds(u)
    /\ links' = linksInsert(u, [file_id |-> fileId, created_by |-> creator,
                                token |-> ClientToken, expires_at |-> now + days])
    /\ links' # links
    /\ UNCHANGED <<sessions, deployed, now, files, bucket, nextId, nextToken, lastReq, lastResp>>

\* values of an update; a folder goes to the top level only, so that every chain
\* of parents ends
UpdateValues(f, column) ==
    CASE column = "name" -> FolderNames
      [] column = "parent_id" ->
            IF isFolder(f) THEN {NoParent}
            ELSE {NoParent} \cup {g.id : g \in files \ {f}}
      [] column = "user_id" -> UserIds

NextTables ==
    \/ Returned
    \/ \E u \in UserIds, name \in FolderNames :
          \E folder \in CurrentFolders(u) :
              nextId <= MaxTable /\ handleCreateFolder(u, name, folder)
    \/ \E u \in UserIds, name \in FileNames, type \in FileTypes \cup {FOLDER_MIME_TYPE} :
          \E folder \in CurrentFolders(u) :
              nextId <= MaxTable /\ uploadInFolder(u, name, type, folder)
    \/ \E u \in UserIds, f \in files, newName \in FolderNames :
          handleRename(u, f, newName)
    \/ \E u \in UserIds, f \in files :
          \E target \in CurrentFolders(u) : moveFile(u, f, target)
    \/ \E u \in UserIds, sel \in SUBSET files : handleDeleteSelection(u, sel, 0, "s3")
    \/ \E u \in UserIds, f \in files : createLink(u, f, 1)
    \/ \E u \in UserIds : sqlSelect(u)
    \/ \E u \in UserIds, owner \in UserIds, name \in FileNames, type \in FileTypes :
          \E parent \in {NoParent} \cup {f.id : f \in files} :
              sqlInsert(u, owner, name, type, parent)
    \/ \E u \in UserIds, f \in files, column \in {"name", "parent_id", "user_id"} :
          \E value \in UpdateValues(f, column) : sqlUpdate(u, f.id, column, value)
    \/ \E u \in UserIds, f \in files, column \in {"name", "parent_id", "user_id"} :
          \E value \in UpdateValues(f, column) : sqlUpdateRefused(u, f.id, column, value)
    \/ \E u \in UserIds, ids \in SUBSET {f.id : f \in files} : sqlDelete(u, ids)
    \/ \E u \in UserIds, creator \in UserIds :
          \E fileId \in KnownFileIds(u) : sqlInsertLink(u, fileId, creator, 30)

SpecTables == Init /\ [][NextTables]_vars

----------------------------------------------------------------------------
(* The dashboard's workflows on the table files alone *)

NextCatalog ==
    \/ Returned
    \/ \E u \in UserIds, name \in FolderNames :
          \E folder \in CurrentFolders(u) : handleCreateFolder(u, name, folder)
    \/ \E u \in UserIds, name \in FileNames, type \in FileTypes \cup {FOLDER_MIME_TYPE} :
          \E folder \in CurrentFolders(u) : uploadInFolder(u, name, type, folder)
    \/ \E u \in UserIds, f \in files, newName \in FolderNames :
          handleRename(u, f, newName)
    \/ \E u \in UserIds, f \in files :
          \E target \in CurrentFolders(u) : moveFile(u, f, target)
    \/ \E u \in UserIds, sel \in SUBSET files : handleDeleteSelection(u, sel, 0, "s3")

SpecCatalog == Init /\ [][NextCatalog]_vars

----------------------------------------------------------------------------
(* Dashboard.handleDelete step by step, in any number of sessions *)

\* what the session's list shows of the selected rows: id, key, folder or not
RECURSIVE Picked(_)
Picked(rows) ==
    IF rows = <<>> THEN <<>>
    ELSE <<[id |-> Head(rows).id, key |-> Head(rows).s3_key,
            folder |-> isFolder(Head(rows))]>> \o Picked(Tail(rows))

\* idsToDelete and keysToDelete, entry by entry
RECURSIVE Entries(_)
Entries(rows) ==
    IF rows = <<>> THEN <<>>
    ELSE <<[id |-> Head(rows).id, key |-> Head(rows).s3_key]>> \o Entries(Tail(rows))

Range(seq) == {seq[i] : i \in 1..Len(seq)}

\* the first lines of handleDelete, for a selection already shown to the session
deleteBegin(s, u, picked, before) ==
    LET folderIds == {p.id : p \in {q \in Range(picked) : q.folder}}
    IN  sessions' = [sessions EXCEPT ![s] =
                        [at |-> "delete",
                         pc |-> IF folderIds = {} THEN "s3" ELSE "enumerate",
                         user |-> u, picked |-> picked, level |-> folderIds,
                         rows |-> [i \in 1..Len(picked) |->
                                      [id |-> picked[i].id, key |-> picked[i].key]],
                         pos |-> 1, outcome |-> "none", before |-> before]]

\* handleDelete is called for rows of the session's list
deleteStart(s, u, sel) ==
    /\ sessions[s] = AtRest
    /\ sel # {}
    /\ sel \subseteq filesSelect(u)
    /\ deleteBegin(s, u, Picked(InOrder(sel)), files)
    /\ UNCHANGED <<deployed, now, files, links, bucket, nextId, nextToken, lastReq,
                   lastResp>>

\* one round of the loop of getRecursiveContents: the rows of one level
deleteEnumerate(s) ==
    /\ sessions[s].at = "delete" /\ sessions[s].pc = "enumerate"
    /\ LET me == sessions[s]
           data == {f \in filesSelect(me.user) : f.parent_id \in me.level}
           plain == {f \in data : ~isFolder(f)}
           folders == {f \in data : isFolder(f)}
       IN  sessions' = [sessions EXCEPT ![s] =
                           [me EXCEPT !.rows = me.rows \o Entries(InOrder(plain))
                                                \o Entries(InOrder(folders)),
                                      !.level = {f.id : f \in folders},
                                      !.pc = IF folders = {} THEN "s3" ELSE "enumerate"]]
    /\ UNCHANGED <<deployed, now, files, links, bucket, nextId, nextToken, lastReq,
                   lastResp>>

\* a loop that gives up at the first key the broker does not delete
keyThrowsOnError(kind, resp) == kind = "network" \/ resp.status # 200

\* await fetch(...) throws if the request fails; an answered error is only
\* logged: if (!response.ok) console.warn(...)
keyThrows(kind, resp) == kind = "network"

\* one round of the loop over keysToDelete: the broker answers (kind "none"),
\* answers with an error (kind "s3"), or the fetch rejects (kind "network")
deleteKey(s, kind) ==
    /\ sessions[s].at = "delete" /\ sessions[s].pc = "s3"
    /\ sessions[s].pos <= Len(sessions[s].rows)
    /\ LET me == sessions[s]
           resp == handler(deployed,
                           Request(Jwt(me.user), "delete", Undefined, Undefined,
                                   me.rows[me.pos].key, Undefined,
                                   IF kind = "s3" THEN "s3" ELSE "none"))
       IN  /\ bucket' = IF kind = "network" THEN bucket ELSE resp.bucket
           /\ sessions' = [sessions EXCEPT ![s] =
                               IF keyThrows(kind, resp)
                               THEN [me EXCEPT !.pc = "done", !.outcome = "error"]
                               ELSE [me EXCEPT !.pos = me.pos + 1]]
    /\ UNCHANGED <<deployed, now, files, links, nextId, nextToken, lastReq, lastResp>>

\* a delete statement that is refused when one of its ids has no row
filesDeleteRefusedIfMissing(uid, ids) ==
    \E id \in ids : \A f \in files : f.id # id

\* the delete statement is refused: a row that stays refers to a row that goes
filesDeleteRefused(uid, ids) ==
    LET gone == {f \in files : f.id \in ids /\ f.user_id = uid}
    IN  \E k \in files \ gone, g \in gone : k.parent_id = g.id

\* DB Deletions: delete().in('id', idsToDelete); if (error) throw error
deleteRows(s) ==
    /\ sessions[s].at = "delete" /\ sessions[s].pc = "s3"
    /\ sessions[s].pos > Len(sessions[s].rows)
    /\ LET me == sessions[s]
           ids == {e.id : e \in Range(me.rows)}
       IN  /\ files' = filesDelete(me.user, ids)
           /\ links' = linksCascade(files')
           /\ sessions' = [sessions EXCEPT ![s] =
                               [me EXCEPT !.pc = "done",
                                          !.outcome =
                                              IF filesDeleteRefused(me.user, ids)
                                              THEN "error" ELSE "ok"]]
    /\ UNCHANGED <<deployed, now, bucket, nextId, nextToken, lastReq, lastResp>>

\* after the alert the list is as it was, and the user deletes the same rows again
deleteRetry(s) ==
    /\ sessions[s].at = "delete" /\ sessions[s].pc = "done"
    /\ sessions[s].outcome = "error"
    /\ deleteBegin(s, sessions[s].user, sessions[s].picked, sessions[s].before)
    /\ UNCHANGED <<deployed, now, files, links, bucket, nextId, nextToken, lastReq,
                   lastResp>>

\* the workflow is over and the session goes on
deleteForget(s) ==
    /\ sessions[s].at = "delete" /\ sessions[s].pc = "done"
    /\ sessions' = [sessions EXCEPT ![s] = AtRest]
    /\ UNCHANGED <<deployed, now, files, links, bucket, nextId, nextToken, lastReq,
                   lastResp>>

\* no session is in a workflow
AllAtRest == \A s \in SessionIds : sessions[s] = AtRest

\* the rows are built while no delete runs; then deletes run side by side, and
\* the object store and the database answer every call
NextDeletes ==
    \/ Returned
    \/ \E u \in UserIds, name \in FolderNames :
          \E folder \in CurrentFolders(u) :
              AllAtRest /\ handleCreateFolder(u, name, folder)
    \/ \E u \in UserIds, name \in FileNames, type \in FileTypes :
          \E folder \in CurrentFolders(u) :
              AllAtRest /\ uploadInFolder(u, name, type, folder)
    \/ \E s \in SessionIds, u \in UserIds, sel \in SUBSET files : deleteStart(s, u, sel)
    \/ \E s \in SessionIds : deleteEnumerate(s)
    \/ \E s \in SessionIds : deleteKey(s, "none")
    \/ \E s \in SessionIds : deleteRows(s)
    \/ \E s \in SessionIds : deleteForget(s)

SpecDeletes == Init /\ [][NextDeletes]_vars

\* one session deletes while the rows keep changing through other sessions'
\* folder creations, uploads and moves
Deleter == {1}

NextInterleaved ==
    \/ Returned
    \/ \E u \in UserIds, name \in FolderNames :
          \E folder \in CurrentFolders(u) : handleCreateFolder(u, name, folder)
    \/ \E u \in UserIds, name \in FileNames, type \in FileTypes :
          \E folder \in CurrentFolders(u) : uploadInFolder(u, name, type, folder)
    \/ \E u \in UserIds, f \in files :
          \E target \in CurrentFolders(u) : moveFile(u, f, target)
    \/ \E s \in Deleter, u \in UserIds, sel \in SUBSET files : deleteStart(s, u, sel)
    \/ \E s \in Deleter : deleteEnumerate(s)
    \/ \E s \in Deleter : deleteKey(s, "none")
    \/ \E s \in Deleter : deleteRows(s)
    \/ \E s \in Deleter : deleteRetry(s)
    \/ \E s \in Deleter : deleteForget(s)

SpecInterleaved == Init /\ [][NextInterleaved]_vars

\* the round of the loop that handles the key at position i
deleteKeyAt(s, i, kind) == deleteKey(s, kind) /\ sessions[s].pos = i

\* the delete of one row, a folder or a file, is tried again until it succeeds,
\* while the object store may fail any call and other sessions may add rows; the
\* list of keys of one row's subtree has at most MaxRows entries
NextRetry ==
    \/ Returned
    \/ \E u \in UserIds, name \in FolderNames :
          \E folder \in CurrentFolders(u) : handleCreateFolder(u, name, folder)
    \/ \E u \in UserIds, name \in FileNames, type \in FileTypes :
          \E folder \in CurrentFolders(u) : uploadInFolder(u, name, type, folder)
    \/ \E s \in Deleter, u \in UserIds, f \in files : deleteStart(s, u, {f})
    \/ \E s \in Deleter : deleteEnumerate(s)
    \/ \E s \in Deleter, i \in 1..MaxRows, kind \in {"none", "s3", "network"} :
          deleteKeyAt(s, i, kind)
    \/ \E s \in Deleter : deleteRows(s)
    \/ \E s \in Deleter : deleteRetry(s)
    \/ \E s \in Deleter : deleteForget(s) /\ sessions[s].outcome = "ok"

\* the user goes on retrying, the database answers, and for every key the object
\* store answers in the end
SpecRetry ==
    /\ Init
    /\ [][NextRetry]_vars
    /\ \A s \in Deleter :
          /\ WF_vars(deleteEnumerate(s))
          /\ WF_vars(deleteRows(s))
          /\ WF_vars(deleteRetry(s))
          /\ \A i \in 1..MaxRows : SF_vars(deleteKeyAt(s, i, "none"))

----------------------------------------------------------------------------
(* The share dialog (ShareModal), open in any number of sessions *)

\* .maybeSingle(): the rows if the query has exactly one, no data otherwise
maybeSingle(rows) == IF Cardinality(rows) = 1 THEN rows ELSE {}

\* ShareModal.checkExistingLink when the dialog opens for a listed file
checkExistingLink(s, u, f) ==
    /\ sessions[s] = AtRest
    /\ f \in filesSelect(u)
    /\ ~isFolder(f)
    /\ LET data == maybeSingle({l \in linksSelect(u) :
                                  l.file_id = f.id /\ l.expires_at >= now})
       IN  sessions' = [sessions EXCEPT ![s] =
                           [at |-> "share", user |-> u, fileId |-> f.id,
                            shareLink |-> IF data # {}
                                          THEN (CHOOSE l \in data : TRUE).token
                                          ELSE Null]]
    /\ UNCHANGED <<deployed, now, files, links, bucket, nextId, nextToken, lastReq,
                   lastResp>>

\* ShareModal.createLink: the form is shown while the dialog holds no link
createLinkInDialog(s, days) ==
    /\ sessions[s].at = "share"
    /\ sessions[s].shareLink = Null
    /\ nextToken <= MaxShares
    /\ links' = linksInsert(sessions[s].user,
                            [file_id |-> sessions[s].fileId,
                             created_by |-> sessions[s].user,
                             token |-> Token(nextToken), expires_at |-> now + days])
    /\ nextToken' = nextToken + 1
    /\ sessions' = [sessions EXCEPT ![s].shareLink =
                        IF links' # links THEN Token(nextToken) ELSE Null]
    /\ UNCHANGED <<deployed, now, files, bucket, nextId, lastReq, lastResp>>

\* onClose; the next opening starts from useState(null) and a new check
closeShare(s) ==
    /\ sessions[s].at = "share"
    /\ sessions' = [sessions EXCEPT ![s] = AtRest]
    /\ UNCHANGED <<deployed, now, files, links, bucket, nextId, nextToken, lastReq,
                   lastResp>>

\* select from shared_links by any client, signed in or anonymous (who = Null),
\* with .eq('token', token) or with no filter (token = Undefined)
sqlSelectLinks(who, token) ==
    /\ Idle
    /\ lastReq' = [method |-> "selectLinks", user |-> who, token |-> token]
    /\ lastResp' = [status |-> 200,
                    rows |-> {l \in linksSelect(who) :
                                 token = Undefined \/ l.token = token},
                    storeBefore |-> bucket, storeAfter |-> bucket]
    /\ UNCHANGED <<sessions, deployed, now, files, links, bucket, nextId, nextToken>>

NextShare ==
    \/ Tick
    \/ Returned
    \/ \E u \in UserIds, name \in FileNames, type \in FileTypes :
          uploadFile(u, name, type, TRUE)
    \/ \E s \in SessionIds, u \in UserIds, f \in files : checkExistingLink(s, u, f)
    \/ \E s \in SessionIds, days \in ExpirationDays : createLinkInDialog(s, days)
    \/ \E s \in SessionIds : closeShare(s)
    \/ \E tk \in TokenInputs :
          Serve(Undefined, "public_download", Undefined, Undefined, Undefined, tk, "none")
    \/ \E u \in UserIds, f \in files : handleDelete(u, f, "none")
    \/ \E who \in UserIds \cup {Null}, tk \in TokenInputs : sqlSelectLinks(who, tk)

SpecShare == Init /\ [][NextShare]_vars

----------------------------------------------------------------------------
(* Dashboard.uploadFile step by step, in any number of sessions *)

\* an upload that goes on to the insert whatever the PUT answered
putAccepted(ok) == TRUE

\* if (!uploadResponse.ok) throw new Error('S3 Upload failed')
putSucceeded(ok) == ok

\* setUploading(true) at the start of uploadFile
uploadStart(s, u, name, type, folder) ==
    /\ sessions[s] = AtRest
    /\ nextId <= MaxTable
    /\ folder \in CurrentFolders(u)
    /\ sessions' = [sessions EXCEPT ![s] =
                        [at |-> "upload", pc |-> "intent", uploading |-> TRUE,
                         user |-> u, name |-> name, type |-> type, folder |-> folder,
                         key |-> Null, intent |-> FALSE, put |-> FALSE, row |-> 0]]
    /\ UNCHANGED <<deployed, now, files, links, bucket, nextId, nextToken, lastReq,
                   lastResp>>

\* 1. Get Presigned URL: the fetch is answered by the broker (with the session's
\* access token still valid or not) or rejects
uploadIntent(s, tokenValid, rejected) ==
    /\ sessions[s].at = "upload" /\ sessions[s].pc = "intent"
    /\ LET me == sessions[s]
           resp == handler(deployed,
                           Request(IF tokenValid THEN Jwt(me.user) ELSE AnonKey,
                                   "upload", me.name, me.type, Undefined, Undefined,
                                   "none"))
           ok == ~rejected /\ resp.status = 200
       IN  sessions' = [sessions EXCEPT ![s] =
                           IF ok THEN [me EXCEPT !.pc = "put", !.intent = TRUE,
                                                 !.key = resp.body.key]
                           ELSE [me EXCEPT !.pc = "finally"]]
    /\ UNCHANGED <<deployed, now, files, links, bucket, nextId, nextToken, lastReq,
                   lastResp>>

\* 2. Upload to S3: the PUT to the signed URL stores the object or fails
uploadPut(s, ok) ==
    /\ sessions[s].at = "upload" /\ sessions[s].pc = "put"
    /\ bucket' = IF ok THEN bucket \cup {sessions[s].key} ELSE bucket
    /\ sessions' = [sessions EXCEPT ![s] =
                        IF putSucceeded(ok) THEN [@ EXCEPT !.pc = "insert", !.put = ok]
                        ELSE [@ EXCEPT !.pc = "finally"]]
    /\ UNCHANGED <<deployed, now, files, links, nextId, nextToken, lastReq, lastResp>>

\* 3. Save to DB
uploadInsert(s) ==
    /\ sessions[s].at = "upload" /\ sessions[s].pc = "insert"
    /\ LET me == sessions[s]
       IN  /\ files' = filesInsert(me.user,
                                   [id |-> nextId, user_id |-> me.user,
                                    name |-> me.name, size |-> 5,
                                    mime_type |-> me.type, s3_key |-> me.key,
                                    parent_id |-> me.folder])
           /\ nextId' = IF files' # files THEN nextId + 1 ELSE nextId
           /\ sessions' = [sessions EXCEPT ![s] =
                               [me EXCEPT !.pc = "finally",
                                          !.row = IF files' # files THEN nextId ELSE 0]]
    /\ UNCHANGED <<deployed, now, links, bucket, nextToken, lastReq, lastResp>>

\* catch (alert) and finally { setUploading(false) }
uploadFinally(s) ==
    /\ sessions[s].at = "upload" /\ sessions[s].pc = "finally"
    /\ sessions' = [sessions EXCEPT ![s] = [@ EXCEPT !.pc = "done", !.uploading = FALSE]]
    /\ UNCHANGED <<deployed, now, files, links, bucket, nextId, nextToken, lastReq,
                   lastResp>>

\* the session is ready for its next upload
uploadForget(s) ==
    /\ sessions[s].at = "upload" /\ sessions[s].pc = "done"
    /\ sessions' = [sessions EXCEPT ![s] = AtRest]
    /\ UNCHANGED <<deployed, now, files, links, bucket, nextId, nextToken, lastReq,
                   lastResp>>

NextUpload ==
    \/ Tick
    \/ \E s \in SessionIds, u \in UserIds, name \in FileNames, type \in FileTypes :
          \E folder \in CurrentFolders(u) : uploadStart(s, u, name, type, folder)
    \/ \E s \in SessionIds, tokenValid \in BOOLEAN, rejected \in BOOLEAN :
          uploadIntent(s, tokenValid, rejected)
    \/ \E s \in SessionIds, ok \in BOOLEAN : uploadPut(s, ok)
    \/ \E s \in SessionIds : uploadInsert(s)
    \/ \E s \in SessionIds : uploadFinally(s)
    \/ \E s \in SessionIds : uploadForget(s)
    \/ \E u \in UserIds, name \in FolderNames :
          \E folder \in CurrentFolders(u) :
              nextId <= MaxTable /\ handleCreateFolder(u, name, folder)

SpecUpload == Init /\ [][NextUpload]_vars

----------------------------------------------------------------------------
(* Vocabulary of the properties *)

\* the exchange on record is a POST with this action
Posted(action) == lastReq.method = "POST" /\ lastReq.action = action

\* who the broker takes the caller of the recorded request to be
Caller == getUser(lastReq.authHeader).user

\* the response carries this error message
Failed(resp, message) == IsError(resp) /\ resp.body.error = message

\* the response is a failure and hands out nothing
HandsOutNothing(resp) == resp.status # 200 /\ DOMAIN resp.body = {"error"}

\* the text of a key before its first "/" is exactly userId
OwnerSegmentIs(key, userId) ==
    /\ \E i \in 1..Len(key) : key[i] = "/"
    /\ LET first == CHOOSE i \in 1..Len(key) :
                       key[i] = "/" /\ \A j \in 1..(i - 1) : key[j] # "/"
       IN  SubSeq(key, 1, first - 1) = userId

\* a private request of userId for key
Private(userId, action, key) ==
    Request(Jwt(userId), action, Undefined, Undefined, key, Undefined, "none")

\* the broker refuses the request as not the caller's
Denied(req) == Failed(handler(deployed, req), <<"Unauthorized access to file">>)

----------------------------------------------------------------------------
(* C1..C4: ownership of storage keys *)

\* C1: a download of a key namespaced under another user (A + "/" + rest, A not
\* the caller) fails as Unauthorized and returns no signed URL, also when the
\* caller's id is a proper prefix of A.
C1_CrossUserDownloadRejected ==
    (/\ Posted("download")
     /\ Caller # Null
     /\ lastReq.key # Undefined
     /\ \E A \in UserIds : A # Caller /\ startsWith(lastReq.key, A \o <<"/">>))
    => /\ Failed(lastResp, <<"Unauthorized access to file">>)
       /\ HandsOutNothing(lastResp)

\* C2: download and delete are authorized exactly when the text of the key before
\* its first "/" is the caller's id, and both decide alike.
C2_DecisionIsOwnerSegment ==
    /\ ((Posted("download") \/ Posted("delete"))
        /\ Caller # Null /\ lastReq.key # Undefined)
       => (~Failed(lastResp, <<"Unauthorized access to file">>)
           <=> OwnerSegmentIs(lastReq.key, Caller))
    /\ \A u \in UserIds, k \in KeyInputs \ {Undefined} :
           Denied(Private(u, "download", k)) <=> Denied(Private(u, "delete", k))

\* C3: a delete of a key whose owner prefix is not the caller fails as
\* Unauthorized, and a rejected delete sends no DeleteObject and leaves the
\* bucket as it was.
C3_ForeignDeleteRejected ==
    (/\ Posted("delete") /\ Caller # Null /\ lastReq.key # Undefined
     /\ \E i \in 1..Len(lastReq.key) : lastReq.key[i] = "/")
    => /\ ~OwnerSegmentIs(lastReq.key, Caller)
          => Failed(lastResp, <<"Unauthorized access to file">>)
       /\ Failed(lastResp, <<"Unauthorized access to file">>)
          => /\ lastResp.calls.delete = 0
             /\ lastResp.storeAfter = lastResp.storeBefore

IsDigits(s) == s # <<>> /\ \A i \in 1..Len(s) : \E d \in 1..10 : s[i] = DigitChars[d]

\* key = u + "/" + <digits> + "-" + n
IsUploadKey(key, u, n) ==
    \E m \in 1..Len(key) :
        /\ IsDigits(SubSeq(key, Len(u) + 2, m))
        /\ key = u \o <<"/">> \o SubSeq(key, Len(u) + 2, m) \o <<"-">> \o n

\* C4: the key of an upload intent of u for name n is u + "/" + digits + "-" + n;
\* u may then download and delete that key, and every other caller is refused.
C4_UploadKeyRoundTrip ==
    (Posted("upload") /\ Caller # Null /\ lastReq.fileName # Undefined)
    => /\ lastResp.status = 200
       /\ IsUploadKey(lastResp.body.key, Caller, lastReq.fileName)
       /\ \A a \in {"download", "delete"} :
            /\ ~Denied(Private(Caller, a, lastResp.body.key))
            /\ \A w \in UserIds \ {Caller} : Denied(Private(w, a, lastResp.body.key))

----------------------------------------------------------------------------
(* C5, C6: credentials and statuses *)

\* C5: an upload, download, delete or unknown action without a valid credential
\* gets the Unauthorized failure and nothing else: no URL, no key, no signing
\* call, no DeleteObject, the bucket as it was.
C5_UnauthenticatedGetsNothing ==
    (lastReq.method = "POST" /\ lastReq.action # "public_download" /\ Caller = Null)
    => /\ Failed(lastResp, <<"Unauthorized">>)
       /\ HandsOutNothing(lastResp)
       /\ lastResp.calls.sign = 0
       /\ lastResp.calls.delete = 0
       /\ lastResp.storeAfter = lastResp.storeBefore

\* an unauthenticated delete aimed at an object that exists
C5_Witness ==
    /\ Posted("delete")
    /\ Caller = Null
    /\ lastReq.key \in bucket
    /\ lastResp.status # 200

\* C6: 200 for every success, 401 for an upload, download or delete without a
\* valid credential, 400 for every other failure, and a failure body is exactly
\* { error: string }.
C6_StatusPerOutcome ==
    lastReq.method = "POST"
    => /\ IsError(lastResp) => DOMAIN lastResp.body = {"error"}
       /\ ~IsError(lastResp) => lastResp.status = 200
       /\ (lastReq.action \in {"upload", "download", "delete"} /\ Caller = Null)
          => lastResp.status = 401
       /\ (IsError(lastResp) /\ (lastReq.action = "public_download" \/ Caller # Null))
          => lastResp.status = 400

----------------------------------------------------------------------------
(* C7..C10: public_download *)

LinkOf(tk) == {l \in links : l.token = tk}

\* a public_download of token tk, whatever the lookups do
Public(tk, fault) ==
    Request(Undefined, "public_download", Undefined, Undefined, Undefined, tk, fault)

RejectedAsExpired(tk) ==
    Failed(handler(deployed, Public(tk, "none")), <<"Link expired">>)

Rejected(tk) ==
    \A fault \in {"none", "link", "file"} :
        HandsOutNothing(handler(deployed, Public(tk, fault)))

\* what public_download answers for a token with no row or an expired row
C7_OnlyLiveTokens ==
    Posted("public_download")
    => /\ lastResp.status = 200
          => \E l \in LinkOf(lastReq.token) : l.expires_at >= now
       /\ (/\ Truthy(lastReq.token)
           /\ \A l \in LinkOf(lastReq.token) : l.expires_at < now)
          => /\ HandsOutNothing(lastResp)
             /\ lastResp.body.error \in
                   { <<"Invalid or expired link">>, <<"Link expired">> }
             /\ lastResp.calls.sign = 0

\* C7: public_download returns a URL only for a token that has a row whose expiry
\* is not before the clock; a token without a row or with an expiry in the past
\* gets the invalid-or-expired failure, without URL or file; and a token that is
\* rejected as expired is rejected ever after.
C7_ExpiredStaysRejected ==
    /\ []C7_OnlyLiveTokens
    /\ [][\A n \in 1..MaxLinks :
             RejectedAsExpired(Token(n)) => Rejected(Token(n))']_vars

\* a link rejected one day after its expiry
C7_Witness ==
    /\ Posted("public_download")
    /\ Failed(lastResp, <<"Link expired">>)
    /\ \E l \in LinkOf(lastReq.token) : l.expires_at + 1 = now

\* C8: the URL of a successful public_download forces a download: disposition
\* "attachment" with the stored name, content type application/octet-stream,
\* whatever the stored content type.
C8_PublicDownloadIsAttachment ==
    (Posted("public_download") /\ lastResp.status = 200)
    => LET command == lastResp.body.url.command IN
       /\ command.ResponseContentDisposition =
             ContentDisposition(encodeURIComponent(lastResp.body.file.name))
       /\ command.ResponseContentType = <<"application/octet-stream">>

\* C9: an authorized download without fileName carries no disposition and no
\* content-type override; with a fileName it carries the attachment disposition
\* with the percent-encoded name and application/octet-stream.
C9_DispositionFollowsFileName ==
    (Posted("download") /\ lastResp.status = 200)
    => LET command == lastResp.body.url.command IN
       /\ lastReq.fileName = Undefined
          => /\ command.ResponseContentDisposition = Undefined
             /\ command.ResponseContentType = Undefined
       /\ Truthy(lastReq.fileName)
          => /\ command.ResponseContentDisposition =
                   ContentDisposition(encodeURIComponent(lastReq.fileName))
             /\ command.ResponseContentType = <<"application/octet-stream">>

\* C10: every rejection of a token by public_download is the same response,
\* whether the token has no row, an expired row, or a row whose file is not found.
C10_UniformPublicFailure ==
    (/\ Posted("public_download") /\ lastReq.fault = "none"
     /\ Truthy(lastReq.token) /\ lastResp.status # 200)
    => \A tk \in TokenInputs :
          LET other == handler(deployed, Public(tk, "none")) IN
          (Truthy(tk) /\ other.status # 200)
          => /\ other.status = lastResp.status
             /\ other.body = lastResp.body

----------------------------------------------------------------------------
(* C11: public_download and credentials *)

\* the recorded request with another Authorization header
WithHeader(h) == [lastReq EXCEPT !.authHeader = h]

----------------------------------------------------------------------------
(* C12: delete is idempotent *)

\* C12: a delete by the owner of the key that the object store serves succeeds with
\* { success: true } whether or not the object exists, and the same delete issued
\* again gives the same result and leaves the store as the first one left it.
C12_DeleteIdempotent ==
    (/\ Posted("delete") /\ lastReq.fault = "none"
     /\ Caller # Null /\ lastReq.key # Undefined
     /\ OwnerSegmentIs(lastReq.key, Caller))
    => /\ lastResp.status = 200
       /\ lastResp.body = [success |-> TRUE]
       /\ lastReq.key \notin lastResp.storeAfter
       /\ LET again == handler(deployed, lastReq) IN
          /\ again.status = lastResp.status
          /\ again.body = lastResp.body
          /\ again.bucket = lastResp.storeAfter

\* the owner has deleted an object that existed; a second delete finds none
C12_Witness ==
    /\ Posted("delete") /\ lastReq.fault = "none"
    /\ Caller # Null /\ lastReq.key # Undefined
    /\ OwnerSegmentIs(lastReq.key, Caller)
    /\ lastReq.key \in lastResp.storeBefore
    /\ lastResp.status = 200
    /\ bucket = lastResp.storeAfter

----------------------------------------------------------------------------
(* C16, C19: upload keys and malformed requests *)

\* an upload of file name n with header h
Upload(h, n) ==
    Request(h, "upload", n, <<"text/html">>, Undefined, Undefined, "none")

\* C16: a second successful upload, by any caller with any file name, handled at
\* the clock reading of the first, gets a key other than the first one's.
C16_UploadKeysDistinct ==
    (Posted("upload") /\ lastResp.status = 200)
    => \A h \in AuthHeaders, n \in FileNames \cup {Undefined} :
          LET second == handler(deployed, Upload(h, n)) IN
          second.status = 200 => second.body.key # lastResp.body.key

\* the recorded request lacks a field its action requires, or its action is unknown
Malformed ==
    \/ lastReq.action \notin {"upload", "download", "delete", "public_download"}
    \/ /\ lastReq.action = "upload"
       /\ (lastReq.fileName = Undefined \/ lastReq.fileType = Undefined)
    \/ lastReq.action \in {"download", "delete"} /\ lastReq.key = Undefined
    \/ lastReq.action = "public_download" /\ lastReq.token = Undefined

\* C19: a request of an authenticated caller (of anyone, for public_download) with
\* an unknown action or without a field its action requires fails with status 400,
\* returns no URL and no key, and causes no signing and no object-store call.
C19_MalformedIsBadRequest ==
    (/\ lastReq.method = "POST"
     /\ (Caller # Null \/ lastReq.action = "public_download")
     /\ Malformed)
    => /\ lastResp.status = 400
       /\ HandsOutNothing(lastResp)
       /\ lastResp.calls.sign = 0
       /\ lastResp.calls.delete = 0
       /\ lastResp.storeAfter = lastResp.storeBefore

----------------------------------------------------------------------------
(* C13..C15: deleting folders *)

\* the recorded exchange is a handleDelete that ran to its end
Deleted == lastReq.method = "handleDelete" /\ ~(lastReq.failAt > 0 /\ lastReq.kind = "network")

\* row f is rootId's row or lies below it, at most n levels down
RECURSIVE Under(_, _, _, _)
Under(rows, f, rootId, n) ==
    \/ f.id = rootId
    \/ /\ n > 0
       /\ \E p \in rows : p.id = f.parent_id /\ Under(rows, p, rootId, n - 1)

\* the subtree of rootId among rows
Subtree(rows, rootId) == {f \in rows : Under(rows, f, rootId, Cardinality(rows))}

LinksInto(someLinks, rows) == {l \in someLinks : \E f \in rows : f.id = l.file_id}

\* C13: a delete of one folder that runs to its end removes the folder's record and
\* every record below it, 1 + N + M records for N files and M folders below, none
\* outside the subtree, and exactly the K share links that reference the subtree.
C13_FolderDeleteRemovesSubtree ==
    (/\ Deleted
     /\ \E root \in lastResp.rowsBefore :
           lastReq.selected = {root.id} /\ isFolder(root))
    => LET before == lastResp.rowsBefore
           root == CHOOSE r \in before : lastReq.selected = {r.id}
           sub == Subtree(before, root.id)
           N == Cardinality({f \in sub \ {root} : ~isFolder(f)})
           M == Cardinality({f \in sub \ {root} : isFolder(f)})
           K == Cardinality(LinksInto(lastResp.linksBefore, sub))
       IN  /\ files = before \ sub
           /\ Cardinality(before) - Cardinality(files) = 1 + N + M
           /\ links = lastResp.linksBefore \ LinksInto(lastResp.linksBefore, sub)
           /\ Cardinality(lastResp.linksBefore) - Cardinality(links) = K

\* a folder holding a folder holding a shared file has been deleted
C13_Witness ==
    /\ Deleted
    /\ \E root, mid, leaf \in lastResp.rowsBefore :
          /\ lastReq.selected = {root.id}
          /\ isFolder(root) /\ isFolder(mid) /\ ~isFolder(leaf)
          /\ mid.parent_id = root.id /\ leaf.parent_id = mid.id
          /\ \E l \in lastResp.linksBefore : l.file_id = leaf.id
    /\ files = {}
    /\ links = {}

\* C14: when the delete of one key fails, by an error answer of the broker or by
\* the request itself failing, the delete of every other key is still attempted
\* and the rows of the selection and of everything below it are still deleted.
C14_FailedKeyDoesNotStopDelete ==
    (lastReq.method = "handleDelete" /\ lastReq.failAt > 0)
    => /\ lastResp.attempted = lastResp.keys
       /\ \A f \in lastResp.rowsBefore : f.s3_key \in lastResp.keys => f \notin files

\* C15: every share link references a file record that exists; public_download
\* succeeds only for a token whose link and file record exist; and once a delete
\* has removed a file record, public_download fails for every token that
\* referenced it.
C15_LinkNeverOutlivesFile ==
    /\ \A l \in links : \E f \in files : f.id = l.file_id
    /\ \A n \in 1..(nextToken - 1) :
          handler(deployed, Public(Token(n), "none")).status = 200
          => \E l \in links, f \in files : l.token = Token(n) /\ f.id = l.file_id
    /\ lastReq.method = "handleDelete"
       => \A l \in lastResp.linksBefore :
             (\A f \in files : f.id # l.file_id)
             => HandsOutNothing(handler(deployed, Public(l.token, "none")))

\* a shared file has been deleted, alone or with its folder
C15_Witness ==
    /\ lastReq.method = "handleDelete"
    /\ \E l \in lastResp.linksBefore :
          /\ \A f \in files : f.id # l.file_id
          /\ l.expires_at >= now
          /\ l \notin links

----------------------------------------------------------------------------
(* C17, C18, C20: the folder convention and the row policies *)

\* C17: in every reachable state of the table files, every record with the
\* sentinel content type (every record treated as a folder) has size 0 and a key
\* under which no object is stored.
C17_FolderSentinel ==
    \A f \in files : isFolder(f) => f.size = 0 /\ f.s3_key \notin bucket

\* the records of owner a among rows
Owned(rows, a) == {f \in rows : f.user_id = a}

\* C18: a select, insert, update or delete issued with one user's identity, from
\* the dashboard or directly, returns no record of another owner and leaves the
\* set of every other owner's records as it was.
C18_RowIsolation ==
    lastReq.method \in {"select", "insert", "update", "delete", "handleDelete"}
    => \A a \in UserIds \ {lastReq.user} :
          /\ Owned(files, a) = Owned(lastResp.rowsBefore, a)
          /\ lastReq.method = "select" => Owned(lastResp.rows, a) = {}

\* an update or a delete has named a record that is somebody else's
C18_Witness ==
    /\ lastReq.method \in {"update", "delete"}
    /\ \E f \in lastResp.rowsBefore : f.id \in lastReq.ids /\ f.user_id # lastReq.user
    /\ \E f \in files : f.user_id = lastReq.user

\* C20: every share link was created by the owner of the file it references, and
\* public_download hands out a signed URL only for a token of such a link.
C20_LinksOnlyByOwner ==
    /\ \A l \in links, f \in files : f.id = l.file_id => l.created_by = f.user_id
    /\ \A tk \in {ClientToken} \cup {Token(n) : n \in 1..(nextToken - 1)} :
          handler(deployed, Public(tk, "none")).status = 200
          => \E l \in links, f \in files :
                l.token = tk /\ f.id = l.file_id /\ l.created_by = f.user_id

----------------------------------------------------------------------------
(* C21, C22: the calls and the effects of one request *)

\* C21: every request makes at most one identity lookup, at most one lookup in
\* the metadata store, and at most one call to the object store (one signing call
\* or one delete call).
C21_AtMostOneCallEach ==
    lastReq.method = "POST"
    => /\ lastResp.calls.identity <= 1
       /\ lastResp.calls.metadata <= 1
       /\ lastResp.calls.sign + lastResp.calls.delete <= 1

\* a step that is one request to the broker and nothing else
ServeStep ==
    /\ lastReq'.method = "POST"
    /\ Serve(lastReq'.authHeader, lastReq'.action, lastReq'.fileName,
             lastReq'.fileType, lastReq'.key, lastReq'.token, lastReq'.fault)

\* the store as an answered request leaves it: an authorized delete that the
\* object store serves removes its key, every other request removes and adds nothing
StoreAfter(req, resp) ==
    IF /\ req.action = "delete" /\ resp.status = 200
       /\ getUser(req.authHeader).user # Null
       /\ ownsKey(req.key, getUser(req.authHeader).user)
    THEN bucket \ {req.key}
    ELSE bucket

\* C22: the handler's upload, download and public_download leave the object
\* store as it was, whether they succeed or fail; only an authorized delete
\* changes it; and a request to the broker changes no row of files or
\* shared_links.
C22_BrokerFrame ==
    [][/\ (Idle /\ lastReq'.method = "POST")
          => /\ lastResp'.storeBefore = bucket
             /\ lastResp'.storeAfter = StoreAfter(lastReq', lastResp')
       /\ ServeStep => files' = files /\ links' = links /\ bucket' = lastResp'.storeAfter
      ]_vars

\* an upload intent has been answered with a key while an object and a row exist
C22_Witness ==
    /\ Posted("upload")
    /\ lastResp.status = 200
    /\ lastResp.storeBefore # {}
    /\ files # {}
    /\ lastResp.body.key \notin lastResp.storeAfter

----------------------------------------------------------------------------
(* C23: objects without a record *)

\* an object in the store whose key no record of files carries
Orphaned(k) == k \in bucket /\ \A f \in files : f.s3_key # k

\* C23: for an object without a record, no request by any caller, its former
\* owner included, is answered with a signed URL for its key.
C23_OrphanInaccessible ==
    \A k \in bucket :
        Orphaned(k)
        => \A h \in AuthHeaders, n \in NameInputs :
              LET resp == handler(deployed,
                                  Request(h, "download", n, Undefined, k, Undefined,
                                          "none"))
              IN  ~(resp.status = 200 /\ resp.body.url.command.Key = k)

----------------------------------------------------------------------------
(* C27: one valid token per file *)

\* the tokens public_download accepts now for file f
Accepted(f) ==
    {l.token : l \in {k \in links :
                         /\ k.file_id = f.id
                         /\ handler(deployed, Public(k.token, "none")).status = 200}}

\* C27: for every file, public_download accepts at most one token at any time,
\* and a share dialog that holds no link was opened on a file without a link
\* that is still valid.
C27_OneValidTokenPerFile ==
    /\ \A f \in files : Cardinality(Accepted(f)) <= 1
    /\ \A s \in SessionIds :
          (sessions[s].at = "share" /\ sessions[s].shareLink # Null)
          => \A f \in files :
                f.id = sessions[s].fileId => Accepted(f) \subseteq {sessions[s].shareLink}

----------------------------------------------------------------------------
(* C28: what an anonymous read of shared_links returns *)

\* C28: a select on shared_links by a client that is not signed in returns at
\* most the row whose token is the token the client presents.
C28_AnonymousSeesOwnTokenOnly ==
    (lastReq.method = "selectLinks" /\ lastReq.user = Null)
    => \A l \in lastResp.rows : lastReq.token # Undefined /\ l.token = lastReq.token

----------------------------------------------------------------------------
(* C29: the order of the upload workflow *)

\* the sessions that are in uploadFile
Uploading == {s \in SessionIds : sessions[s].at = "upload"}

\* C29: a step adds a record only as the insert of an upload whose intent was
\* answered with success and whose PUT succeeded, and the record carries the key
\* of that intent; an upload whose intent or PUT failed inserts nothing; and an
\* upload that has left uploadFile has reset the uploading flag.
C29_UploadOrder ==
    [][/\ \A f \in files' \ files :
             isFolder(f)
             \/ \E s \in Uploading :
                   /\ sessions[s].pc = "insert"
                   /\ sessions[s].intent /\ sessions[s].put
                   /\ f.s3_key = sessions[s].key
                   /\ f.s3_key \in bucket
                   /\ sessions'[s].row = f.id
       /\ \A s \in SessionIds :
             (sessions'[s].at = "upload" /\ sessions'[s].pc = "done")
             => /\ ~sessions'[s].uploading
                /\ ~(sessions'[s].intent /\ sessions'[s].put) => sessions'[s].row = 0
       /\ \A s \in SessionIds :
             (sessions'[s].at = "upload" /\ sessions'[s].pc \notin {"done"})
             => sessions'[s].uploading
      ]_vars

\* one upload has ended at a failed PUT and another has inserted its record
C29_Witness ==
    \E s, t \in Uploading :
        /\ sessions[s].pc = "done" /\ sessions[s].intent /\ ~sessions[s].put
        /\ sessions[t].pc = "done" /\ sessions[t].row # 0

----------------------------------------------------------------------------
(* C30: the parent references form a forest of folders *)

\* following parent_id from f reaches null within n steps
RECURSIVE Rooted(_, _, _)
Rooted(rows, f, n) ==
    \/ f.parent_id = NoParent
    \/ /\ n > 0
       /\ \E p \in rows : p.id = f.parent_id /\ Rooted(rows, p, n - 1)

\* C30: from every record the parent references lead to null without visiting
\* a record twice, and every parent reference that is not null points to a
\* record with the folder content type.
C30_ForestOfFolders ==
    \A f \in files :
        /\ Rooted(files, f, Cardinality(files) - 1)
        /\ f.parent_id # NoParent
           => \E p \in files : p.id = f.parent_id /\ p.mime_type = FOLDER_MIME_TYPE

\* a renamed file lies in a folder that lies in a folder
C30_Witness ==
    \E f, p, q \in files :
        /\ f.mime_type \in FileTypes /\ f.name \in FolderNames
        /\ f.parent_id = p.id /\ p.parent_id = q.id /\ q.parent_id = NoParent

----------------------------------------------------------------------------
(* C25: deletes that run side by side *)

\* the rows a delete workflow is to remove: the selected rows and what lay below
\* them when it started
Doomed(me) ==
    UNION {Subtree(me.before, p.id) : p \in Range(me.picked)}

Deleting == {s \in SessionIds : sessions[s].at = "delete"}

\* C25: when delete workflows run side by side on subtrees that overlap, each
\* ends without error with every record and object of its subtree gone, and no
\* step removes a record or an object outside the subtrees being deleted.
C25_ConcurrentDeletes ==
    [][/\ \A s \in SessionIds :
             (sessions'[s].at = "delete" /\ sessions'[s].pc = "done")
             => /\ sessions'[s].outcome = "ok"
                /\ \A f \in Doomed(sessions'[s]) :
                      /\ \A g \in files' : g.id # f.id
                      /\ f.s3_key \notin bucket'
       /\ \A f \in files \ files' : \E s \in Deleting : f \in Doomed(sessions[s])
       /\ \A k \in bucket \ bucket' :
             \E s \in Deleting : \E f \in Doomed(sessions[s]) : f.s3_key = k
      ]_vars

\* a folder and a file below it were selected for deletion in two sessions
\* before either had removed anything, and both workflows have ended
C25_Witness ==
    /\ Deleting = SessionIds
    /\ \A s \in SessionIds : sessions[s].pc = "done"
    /\ sessions[1].before = sessions[2].before
    /\ sessions[1].picked # sessions[2].picked
    /\ \E f \in Doomed(sessions[1]) \cap Doomed(sessions[2]) : ~isFolder(f)
    /\ \E f \in Doomed(sessions[1]) : isFolder(f)

----------------------------------------------------------------------------
(* C26: no record is left without its parent *)

\* C26: every record's parent reference is null or refers to a record that
\* exists; and a step that removes a folder's record removes every record that
\* lay below it, also when a record came into the subtree after the delete
\* workflow had listed it.
C26_DeleteTakesDescendants ==
    [][/\ \A f \in files' :
             f.parent_id = NoParent \/ \E p \in files' : p.id = f.parent_id
       /\ \A g \in files :
             (\A h \in files' : h.id # g.id)
             => \A f \in Subtree(files, g.id) : \A h \in files' : h.id # f.id
      ]_vars

\* a delete workflow has reached its delete statement after a record came below
\* one of the rows it had listed
C26_Witness ==
    \E s \in Deleting :
        /\ sessions[s].pc = "done"
        /\ \E f \in files :
              /\ \A e \in Range(sessions[s].rows) : e.id # f.id
              /\ \E e \in Range(sessions[s].rows) : e.id = f.parent_id

----------------------------------------------------------------------------
(* C24: a delete that stopped part-way is tried again *)

\* session s has ended a delete workflow without error
DeleteDone(s) ==
    sessions[s].at = "delete" /\ sessions[s].pc = "done" /\ sessions[s].outcome = "ok"

\* C24: a delete workflow that is tried again after every failure reaches its
\* end without error, whatever its earlier runs have removed already, and then
\* no selected record and no record below one remains.
C24_RetryReachesTheEnd ==
    \A s \in Deleter :
        /\ [](DeleteDone(s)
              => \A p \in Range(sessions[s].picked) :
                    \A f \in files : f.id # p.id /\ f.parent_id # p.id)
        /\ (sessions[s].at = "delete") ~> DeleteDone(s)

\* a run of the workflow has failed after removing an object, the rows are all
\* there, and it is being tried again
C24_Witness ==
    \E s \in Deleting :
        /\ sessions[s].pc = "s3"
        /\ sessions[s].pos = 1
        /\ Len(sessions[s].rows) > 1
        /\ \E e \in Range(sessions[s].rows) :
              /\ e.key \notin bucket
              /\ \E f \in files : f.id = e.id /\ ~isFolder(f)
        /\ \A e \in Range(sessions[s].rows) : \E f \in files : f.id = e.id

====
